---- MODULE Spec2Model ----
(***************************************************************************)
(* Model of homework.py: the token check, the polling loop of main() and   *)
(* the functions it calls.  Python strings are TLA+ strings; the Russian   *)
(* literals of the source are written in Latin transliteration, kept       *)
(* distinct wherever the source's literals are distinct.  Every f-string   *)
(* is built with \o from the same parts as in the source.                  *)
(***************************************************************************)
EXTENDS Naturals, Sequences, FiniteSets, TLC

VARIABLES
    TOKENS,        \* homework.py:33  name -> value read from the environment
    pc,            \* position of main(): start, bot, try, except, finally, exit, crashed
    none_tokens,   \* homework.py:141 result of check_tokens()
    timestamp,     \* homework.py:148 the cursor
    last_message,  \* homework.py:149
    error,         \* homework.py:164 text of the exception bound by "except ... as error"
    sends,         \* calls of bot.send_message since the iteration began: text and result
    route,         \* how the try block of the iteration ended
    seen,          \* what the iteration's response was (observed, never read by main)
    slept,         \* durations of time.sleep since get_api_answer was last called
    run,           \* the consecutive iterations so far that saw the same thing
    tally,         \* how often one failure text was raised and sent, all iterations
    got,           \* what requests.get gave since the iteration began, call by call
    attempt,       \* the latest call of bot.send_message, all iterations
    echo           \* how far the sequence status, failure, same status has come

vars == <<TOKENS, pc, none_tokens, timestamp, last_message, error, sends, route, seen,
          slept, run, tally, got, attempt, echo>>

\* the variables that record history; main() reads none of them
history == <<run, tally, got, attempt, echo>>

----------------------------------------------------------------------------
(* Bounds of the model. *)

\* current_date values and start times range over 0..MaxDate
MaxDate == 1
\* longest homeworks list a response carries
MaxHomeworks == 2
\* iterations counted in a run of like iterations (the count stops there)
MaxRun == 3
\* sends of one text counted in tally (the count stops there)
MaxTally == 2

(* Program constants. *)

RETRY_PERIOD == 600
HTTP_OK == 200

\* Python's None, distinct from every string value of a token
None == "<None>"

TokenNames == <<"PRACTICUM_TOKEN", "TELEGRAM_TOKEN", "TELEGRAM_CHAT_ID">>

\* what os.getenv can give: None (absent), the empty string, a non-empty value
EnvValues == {None, "", "t"}

ENDPOINT == "https://practicum.yandex.ru/api/user_api/homework_statuses/"

\* f'OAuth {PRACTICUM_TOKEN}' inside a dict, as str() prints it
HEADERS(tokens) ==
    "{'Authorization': 'OAuth "
        \o (IF tokens["PRACTICUM_TOKEN"] = None THEN "None" ELSE tokens["PRACTICUM_TOKEN"])
        \o "'}"

VerdictKeys == {"approved", "reviewing", "rejected"}

HOMEWORK_VERDICTS(status) ==
    CASE status = "approved" -> "Rabota proverena: revyueru vsyo ponravilos. Ura!"
      [] status = "reviewing" -> "Rabota vzyata na proverku revyuerom."
      [] status = "rejected" -> "Rabota proverena: u revyuera est zamechaniya."

\* bool(value) of a token value
Truthy(v) == v # None /\ v # ""

RECURSIVE NoneOf(_, _)
\* the for loop of check_tokens over the names from position i on
NoneOf(tokens, i) ==
    IF i > Len(TokenNames) THEN <<>>
    ELSE (IF tokens[TokenNames[i]] = None THEN <<TokenNames[i]>> ELSE <<>>)
             \o NoneOf(tokens, i + 1)

check_tokens(tokens) ==
    IF ~(\A i \in 1..Len(TokenNames) : Truthy(tokens[TokenNames[i]]))
    THEN NoneOf(tokens, 1)
    ELSE <<>>

----------------------------------------------------------------------------
(* Inputs: what the server and Telegram can answer. *)

Dates == 0..MaxDate

\* a homework record: a dict with a subset of the two keys parse_status reads
Homework(ks, st) ==
    [keys |-> ks,
     homework_name |-> IF "homework_name" \in ks THEN "hw1" ELSE "",
     status |-> IF "status" \in ks THEN st ELSE ""]

\* records that can stand first in the list
HomeworkRecords ==
    { Homework({"homework_name", "status"}, st) :
          st \in {"approved", "rejected", "cancelled"} }
    \cup { Homework({"status"}, "approved"), Homework({"homework_name"}, "") }

\* older records of the same batch: a well-formed one and a malformed one
OlderRecords ==
    { Homework({"homework_name", "status"}, "reviewing"), Homework({}, "") }

RECURSIVE SeqsUpTo(_, _)
SeqsUpTo(S, n) ==
    IF n = 0 THEN {<<>>}
    ELSE LET shorter == SeqsUpTo(S, n - 1)
         IN  shorter \cup { Append(s, x) : s \in shorter, x \in S }

HomeworkLists ==
    {<<>>} \cup { <<h>> \o older : h \in HomeworkRecords,
                                  older \in SeqsUpTo(OlderRecords, MaxHomeworks - 1) }

\* the value under "homeworks": a list of records or something that is no list
HomeworksValues ==
    { [type |-> "list", items |-> s] : s \in HomeworkLists }
    \cup { [type |-> "dict", items |-> <<>>] }

NoHomeworks == [type |-> "NoneType", items |-> <<>>]

Dict(ks, hw, cd, er, co) ==
    [kind |-> "dict", keys |-> ks, homeworks |-> hw, current_date |-> cd,
     error |-> er, code |-> co]

\* decoded bodies without error/code keys
PlainBodies ==
    { Dict({"homeworks", "current_date"}, hw, cd, "", "") :
          hw \in HomeworksValues, cd \in Dates }
    \cup { Dict({"homeworks"}, hw, 0, "", "") : hw \in HomeworksValues }
    \cup { Dict({"current_date"}, NoHomeworks, cd, "", "") : cd \in Dates }
    \cup { Dict({}, NoHomeworks, 0, "", "") }

OneApproved ==
    [type |-> "list", items |-> << Homework({"homework_name", "status"}, "approved") >>]

\* decoded bodies in which the API signals a rejected request
RefusedBodies ==
    { Dict({"homeworks", "current_date"} \cup ks, OneApproved, MaxDate,
           IF "error" \in ks THEN "denied" ELSE "",
           IF "code" \in ks THEN "not_authenticated" ELSE "") :
          ks \in { {"error"}, {"code"}, {"error", "code"} } }

\* bodies that decode to a list or to a number, or do not decode
OtherBodies ==
    { [kind |-> k, keys |-> {}, homeworks |-> NoHomeworks, current_date |-> 0,
       error |-> "", code |-> ""] : k \in {"list", "int", "notjson"} }

Bodies == PlainBodies \cup RefusedBodies \cup OtherBodies

NoBody == Dict({}, NoHomeworks, 0, "", "")

\* what requests.get does: raise a RequestException (exc is its text) or
\* return a response with a status code and a body
Replies ==
    { [exc |-> "timed out", status_code |-> 0, body |-> NoBody] }
    \cup { [exc |-> "", status_code |-> 503, body |-> b] :
               b \in {NoBody} \cup RefusedBodies \cup OtherBodies }
    \cup { [exc |-> "", status_code |-> HTTP_OK, body |-> b] : b \in Bodies }

Delivered == [kind |-> "ok", text |-> ""]

\* what bot.send_message does: return, raise a TelegramError, or raise
\* some other exception (text is str() of it)
SendOutcomes ==
    { Delivered,
      [kind |-> "TelegramError", text |-> "Forbidden"],
      [kind |-> "Exception", text |-> "boom"] }

----------------------------------------------------------------------------
(* The functions of homework.py.  A call either returns a value or raises: *)
(* [raised |-> TRUE, text |-> str(exception)].                             *)

Raise(text) == [raised |-> TRUE, text |-> text, value |-> NoBody, items |-> <<>>]
Return(body) == [raised |-> FALSE, text |-> "", value |-> body, items |-> <<>>]
ReturnList(items) == [raised |-> FALSE, text |-> "", value |-> NoBody, items |-> items]
ReturnText(text) == [raised |-> FALSE, text |-> text, value |-> NoBody, items |-> <<>>]

Params(tokens, ts) == ENDPOINT \o " " \o HEADERS(tokens) \o " " \o ToString(ts)

\* the for loop over ['error', 'code'] of get_api_answer
ErrorKeyCheck(tokens, ts, body) ==
    IF "error" \in body.keys
    THEN Raise("Otkaz servera. V otvete naiden klyuch:error. Oshibka:" \o body.error
               \o ". Parametry:" \o Params(tokens, ts))
    ELSE IF "code" \in body.keys
    THEN Raise("Otkaz servera. V otvete naiden klyuch:code. Oshibka:" \o body.code
               \o ". Parametry:" \o Params(tokens, ts))
    ELSE Return(body)

\* get_api_answer looking for the error/code keys before the status code
get_api_answerBodyFirst(tokens, ts, reply) ==
    IF reply.exc # ""
    THEN Raise("Oshibka zaprosa k API:" \o reply.exc \o ". Parametry:" \o Params(tokens, ts))
    ELSE IF reply.body.kind = "dict" /\ ErrorKeyCheck(tokens, ts, reply.body).raised
    THEN ErrorKeyCheck(tokens, ts, reply.body)
    ELSE IF reply.status_code # HTTP_OK
    THEN Raise("Ne poluchen otvet API. Kod otveta: " \o ToString(reply.status_code))
    ELSE IF reply.body.kind = "notjson"
    THEN Raise("Expecting value: line 1 column 1 (char 0)")
    ELSE IF reply.body.kind = "int"
    THEN Raise("argument of type 'int' is not iterable")
    ELSE Return(reply.body)

get_api_answer(tokens, ts, reply) ==
    IF reply.exc # ""
    THEN Raise("Oshibka zaprosa k API:" \o reply.exc \o ". Parametry:" \o Params(tokens, ts))
    ELSE IF reply.status_code # HTTP_OK
    THEN Raise("Ne poluchen otvet API. Kod otveta: " \o ToString(reply.status_code))
    ELSE IF reply.body.kind = "notjson"
    THEN Raise("Expecting value: line 1 column 1 (char 0)")
    ELSE IF reply.body.kind = "int"
    THEN Raise("argument of type 'int' is not iterable")
    ELSE IF reply.body.kind = "list"
    THEN Return(reply.body)
    ELSE ErrorKeyCheck(tokens, ts, reply.body)

check_response(response) ==
    IF response.kind # "dict"
    THEN Raise("Otvet soderzhit ne slovar, a {type(response)}.")
    ELSE IF "homeworks" \notin response.keys
    THEN Raise("'Otsutstvuet klyuch homeworks.'")
    ELSE IF response.homeworks.type # "list"
    THEN Raise("homeworks yavlyaetsya ne spiskom, a <class '"
               \o response.homeworks.type \o "'>.")
    ELSE ReturnList(response.homeworks.items)

\* parse_status reading HOMEWORK_VERDICTS with .get(): an unknown status
\* gives a message without a verdict
parse_statusLenient(homework) ==
    IF "homework_name" \notin homework.keys
    THEN Raise("'Otsutstvuet klyuch homework_name.'")
    ELSE IF "status" \notin homework.keys
    THEN Raise("'Otsutstvuet klyuch status.'")
    ELSE ReturnText("Izmenilsya status proverki raboty \"" \o homework.homework_name
                    \o "\". "
                    \o (IF homework.status \in VerdictKeys
                        THEN HOMEWORK_VERDICTS(homework.status) ELSE "None"))

parse_status(homework) ==
    IF "homework_name" \notin homework.keys
    THEN Raise("'Otsutstvuet klyuch homework_name.'")
    ELSE IF "status" \notin homework.keys
    THEN Raise("'Otsutstvuet klyuch status.'")
    ELSE IF homework.status \notin VerdictKeys
    THEN Raise("Neizvestnyi status raboty - " \o homework.status)
    ELSE ReturnText("Izmenilsya status proverki raboty \"" \o homework.homework_name
                    \o "\". " \o HOMEWORK_VERDICTS(homework.status))

\* send_message without its try/except
send_messageUncaught(outcome) ==
    IF outcome.kind = "ok" THEN ReturnText("") ELSE Raise(outcome.text)

\* send_message: a TelegramError is logged and swallowed, anything else propagates
send_message(outcome) ==
    IF outcome.kind = "ok" THEN ReturnText("")
    ELSE IF outcome.kind = "TelegramError" THEN ReturnText("")
    ELSE Raise(outcome.text)

\* response.get('current_date', 0)
GetCurrentDateOrZero(response, ts) ==
    IF "current_date" \in response.keys THEN response.current_date ELSE 0

\* response.get('current_date', timestamp)
GetCurrentDate(response, ts) ==
    IF "current_date" \in response.keys THEN response.current_date ELSE ts

\* f'Sboi v rabote programmy: {error}'
FailureMessage(err) == "Sboi v rabote programmy: " \o err

----------------------------------------------------------------------------
(* main(): the body of "while True", block by block. *)

\* what an iteration saw: did get_api_answer return, was the list non-empty,
\* did parse_status return, did the response carry current_date; text is the
\* status message when parse_status returned, else the text of the exception
\* raised before the send ("" when there is none); cursor0 and last0 are
\* timestamp and last_message when the iteration began
Seen(f, n, p, d, text, ts, last) ==
    [fetched |-> f, listed |-> n # "no", nonempty |-> n = "some", parsed |-> p,
     dated |-> d, text |-> text, cursor0 |-> ts, last0 |-> last]

NoSeen == Seen(FALSE, "no", FALSE, FALSE, "", 0, "")

\* one call of bot.send_message
Sent(message, outcome) == [text |-> message, result |-> outcome.kind]

\* the result of the try block: where control goes and what it assigned
Outcome(r, err, snd, last, ts, sn) ==
    [route |-> r, error |-> err, sends |-> snd, last_message |-> last,
     timestamp |-> ts, seen |-> sn]

\* lines 159-163 with "last_message = message" before the call of send_message
DispatchAssignsFirst(ts, last, response, message, outcome) ==
    LET sn == Seen(TRUE, "some", TRUE, "current_date" \in response.keys, message, ts, last)
    IN  IF last # message
        THEN IF send_message(outcome).raised
             THEN Outcome("raised", send_message(outcome).text, <<Sent(message, outcome)>>,
                          message, ts, sn)
             ELSE Outcome("dispatched", "", <<Sent(message, outcome)>>, message,
                          GetCurrentDate(response, ts), sn)
        ELSE Outcome("suppressed", "", <<>>, last, ts, sn)

\* lines 160-163 without "if last_message != message"
DispatchUngated(ts, last, response, message, outcome) ==
    LET sn == Seen(TRUE, "some", TRUE, "current_date" \in response.keys, message, ts, last)
    IN  IF send_message(outcome).raised
        THEN Outcome("raised", send_message(outcome).text, <<Sent(message, outcome)>>,
                     last, ts, sn)
        ELSE Outcome("dispatched", "", <<Sent(message, outcome)>>, message,
                     GetCurrentDate(response, ts), sn)

\* lines 159-163 with the assignment of timestamp after the if block
DispatchAdvancesAlways(ts, last, response, message, outcome) ==
    LET sn == Seen(TRUE, "some", TRUE, "current_date" \in response.keys, message, ts, last)
    IN  IF last # message
        THEN IF send_message(outcome).raised
             THEN Outcome("raised", send_message(outcome).text, <<Sent(message, outcome)>>,
                          last, ts, sn)
             ELSE Outcome("dispatched", "", <<Sent(message, outcome)>>, message,
                          GetCurrentDate(response, ts), sn)
        ELSE Outcome("suppressed", "", <<>>, last, GetCurrentDate(response, ts), sn)

\* lines 159-163 without "last_message = message"
DispatchForgetful(ts, last, response, message, outcome) ==
    LET sn == Seen(TRUE, "some", TRUE, "current_date" \in response.keys, message, ts, last)
    IN  IF last # message
        THEN IF send_message(outcome).raised
             THEN Outcome("raised", send_message(outcome).text, <<Sent(message, outcome)>>,
                          last, ts, sn)
             ELSE Outcome("dispatched", "", <<Sent(message, outcome)>>, last,
                          GetCurrentDate(response, ts), sn)
        ELSE Outcome("suppressed", "", <<>>, last, ts, sn)

\* homework.py:159-163
Dispatch(ts, last, response, message, outcome) ==
    LET sn == Seen(TRUE, "some", TRUE, "current_date" \in response.keys, message, ts, last)
    IN  IF last # message
        THEN IF send_message(outcome).raised
             THEN Outcome("raised", send_message(outcome).text, <<Sent(message, outcome)>>,
                          last, ts, sn)
             ELSE Outcome("dispatched", "", <<Sent(message, outcome)>>, message,
                          GetCurrentDate(response, ts), sn)
        ELSE Outcome("suppressed", "", <<>>, last, ts, sn)

\* homeworks[-1]
Last(homeworks) == homeworks[Len(homeworks)]

\* homeworks[0]
First(homeworks) == homeworks[1]

\* homework.py:153-163
TryBody(tokens, ts, last, reply, outcome) ==
    LET answer == get_api_answer(tokens, ts, reply)
        checked == check_response(answer.value)
        parsed == parse_status(First(checked.items))
        dated == "current_date" \in answer.value.keys
    IN  IF answer.raised
        THEN Outcome("raised", answer.text, <<>>, last, ts,
                     Seen(FALSE, "no", FALSE, FALSE, answer.text, ts, last))
        ELSE IF checked.raised
        THEN Outcome("raised", checked.text, <<>>, last, ts,
                     Seen(TRUE, "no", FALSE, dated, checked.text, ts, last))
        ELSE IF checked.items = <<>>
        THEN Outcome("empty", "", <<>>, last, ts,
                     Seen(TRUE, "empty", FALSE, dated, "", ts, last))
        ELSE IF parsed.raised
        THEN Outcome("raised", parsed.text, <<>>, last, ts,
                     Seen(TRUE, "some", FALSE, dated, parsed.text, ts, last))
        ELSE Dispatch(ts, last, answer.value, parsed.text, outcome)

\* the handler with "last_message = message" before the call of send_message
HandlerLastMessageAssignsFirst(last, message, outcome) ==
    IF last # message THEN message ELSE last

\* the handler without "last_message = message"
HandlerLastMessageForgetful(last, message, outcome) == last

\* homework.py:167-175: the value of last_message after the handler
HandlerLastMessage(last, message, outcome) ==
    IF last # message /\ ~send_message(outcome).raised THEN message ELSE last

\* the handler calling send_message a second time
HandlerSendsRetrying(last, message, outcome) ==
    IF last # message THEN <<Sent(message, outcome), Sent(message, outcome)>> ELSE <<>>

\* the handler without "if last_message != message"
HandlerSendsUngated(last, message, outcome) == <<Sent(message, outcome)>>

\* homework.py:167-169: the send attempts of the handler
HandlerSends(last, message, outcome) ==
    IF last # message THEN <<Sent(message, outcome)>> ELSE <<>>

\* the handler without its inner try/except
HandlerNextUncaught(last, message, outcome) ==
    IF last # message /\ send_message(outcome).raised THEN "crashed" ELSE "finally"

\* where main() is after the handler; the inner "except Exception" catches
\* whatever send_message raised
HandlerNext(last, message, outcome) == "finally"

\* homework.py:152-175: the send attempts, last_message and timestamp at the
\* end of an iteration that began with ts and last, got reply, and whose
\* calls of bot.send_message ended as o1 (try block) and o2 (handler)
IterationEnd(tokens, ts, last, reply, o1, o2) ==
    LET out == TryBody(tokens, ts, last, reply, o1)
        message == FailureMessage(out.error)
    IN  IF out.route = "raised"
        THEN [sends |-> out.sends \o HandlerSends(out.last_message, message, o2),
              last_message |-> HandlerLastMessage(out.last_message, message, o2),
              timestamp |-> out.timestamp]
        ELSE [sends |-> out.sends, last_message |-> out.last_message,
              timestamp |-> out.timestamp]

\* "continue" jumping to the next iteration past the sleep
TryNextContinueSkipsSleep(r) ==
    IF r = "raised" THEN "except" ELSE IF r = "empty" THEN "try" ELSE "finally"

\* an empty list raising like a malformed one
TryNextEmptyRaises(r) == IF r \in {"raised", "empty"} THEN "except" ELSE "finally"

\* where the try block leaves main(): an exception goes to the handler,
\* "continue" and the normal end go to the finally clause
TryNext(r) == IF r = "raised" THEN "except" ELSE "finally"

\* where the finally clause leaves main() after the sleep
FinallyNext(r) == "try"

(* Bookkeeping across iterations; main() reads none of it. *)

Min(a, b) == IF a < b THEN a ELSE b

\* what two iterations must share to count as seeing the same thing:
\* the cursor sent and what came back
Key(sn) == [fetched |-> sn.fetched, listed |-> sn.listed, nonempty |-> sn.nonempty,
            parsed |-> sn.parsed, dated |-> sn.dated, text |-> sn.text,
            cursor0 |-> sn.cursor0]

SendRaised(made) == \E i \in DOMAIN made : made[i].result = "Exception"

\* a run: its key, how many iterations it has (counted up to MaxRun), how
\* many sends they made (counted up to MaxRun), whether a send raised into
\* main(), and last_message when the run began
NoRun == [key |-> Key(NoSeen), len |-> 0, nsends |-> 0, raised |-> FALSE, last0 |-> ""]

\* the run after the try block of an iteration that saw sn and sent made
Joined(r, sn, made) ==
    IF r.len > 0 /\ r.key = Key(sn)
    THEN [r EXCEPT !.len = Min(r.len + 1, MaxRun),
                   !.nsends = Min(r.nsends + Len(made), MaxRun),
                   !.raised = r.raised \/ SendRaised(made)]
    ELSE [key |-> Key(sn), len |-> 1, nsends |-> Len(made),
          raised |-> SendRaised(made), last0 |-> sn.last0]

\* the run after the handler sent made
Counted(r, made) ==
    [r EXCEPT !.nsends = Min(r.nsends + Len(made), MaxRun),
              !.raised = r.raised \/ SendRaised(made)]

\* the texts check_response raises
SchemaErrors ==
    { check_response(b).text : b \in { c \in Bodies : check_response(c).raised } }

\* a tally: the error text it watches, whether check_response has raised it,
\* and how many sends carried its failure message (counted up to MaxTally)
NoTally == [watched |-> "", occurred |-> FALSE, count |-> 0]

Carrying(made, text) == Cardinality({ i \in DOMAIN made : made[i].text = text })

\* the tally after a step in which check_response raised err ("" if it did
\* not raise) and the sends made were made
Tallied(t, err, made) ==
    [t EXCEPT !.occurred = t.occurred \/ err = t.watched,
              !.count = Min(t.count + Carrying(made, FailureMessage(t.watched)), MaxTally)]

\* no call of bot.send_message yet; of the call before the latest one,
\* after is how it ended and same is whether it carried the same text
NoAttempt == [text |-> "", result |-> "none", same |-> FALSE, after |-> "none"]

RECURSIVE Attempted(_, _)
\* the latest call after the calls made, in order
Attempted(a, made) ==
    IF made = <<>> THEN a
    ELSE Attempted([text |-> Head(made).text, result |-> Head(made).result,
                    same |-> Head(made).text = a.text, after |-> a.result],
                   Tail(made))

\* the sequence "status message m sent, failure message sent, m again":
\* phase 0 before any status message was sent, 1 after m was sent, 2 after a
\* failure message was sent since, 3 after m was then sent again, 4 after an
\* iteration then parsed to m and sent nothing; returned is whether a send
\* of a failure message since m returned to main()
NoEcho == [phase |-> 0, m |-> "", returned |-> FALSE]

\* the echo after a try block that saw sn and made the sends made
EchoedTry(ec, sn, made) ==
    IF made # <<>>
    THEN IF ec.phase \in {2, 4} /\ ec.m = made[1].text
         THEN [ec EXCEPT !.phase = 3]
         ELSE [phase |-> 1, m |-> made[1].text, returned |-> FALSE]
    ELSE IF sn.parsed /\ ec.phase \in {2, 4} /\ ec.m = sn.text
    THEN [ec EXCEPT !.phase = 4]
    ELSE ec

\* the echo after a handler that made the sends made
EchoedHandler(ec, made) ==
    IF made # <<>> /\ ec.phase # 0
    THEN [ec EXCEPT !.phase = 2,
                    !.returned = (ec.phase \in {2, 4} /\ ec.returned)
                                     \/ made[Len(made)].result # "Exception"]
    ELSE ec

\* every token is set
Configured == \A i \in 1..Len(TokenNames) : Truthy(TOKENS[TokenNames[i]])

\* the state before main() is called; Tallies is what tally may start as
Start(Tallies) ==
    /\ TOKENS \in [{TokenNames[i] : i \in 1..Len(TokenNames)} -> EnvValues]
    /\ pc = "start"
    /\ none_tokens = <<>>
    /\ timestamp = 0
    /\ last_message = ""
    /\ error = ""
    /\ sends = <<>>
    /\ route = "none"
    /\ seen = NoSeen
    /\ slept = <<>>
    /\ run = NoRun
    /\ tally \in Tallies
    /\ got = <<>>
    /\ attempt = NoAttempt
    /\ echo = NoEcho

\* homework.py:141-146
CheckTokens ==
    /\ pc = "start"
    /\ none_tokens' = check_tokens(TOKENS)
    /\ pc' = IF check_tokens(TOKENS) # <<>> THEN "exit" ELSE "bot"
    /\ UNCHANGED <<TOKENS, timestamp, last_message, error, sends, route, seen, slept>>

\* telegram.Bot(token): the library rejects an empty token and may reject
\* a non-empty one (InvalidToken); the exception leaves main()
BotOutcomes(token) == IF token = "" THEN {"InvalidToken"} ELSE {"ok", "InvalidToken"}

\* homework.py:147-150
StartBot ==
    /\ pc = "bot"
    /\ \E made \in BotOutcomes(TOKENS["TELEGRAM_TOKEN"]), now \in Dates :
          IF made = "ok"
          THEN /\ pc' = "try"
               /\ timestamp' = now
               /\ last_message' = ""
          ELSE /\ pc' = "crashed"
               /\ UNCHANGED <<timestamp, last_message>>
    /\ UNCHANGED <<TOKENS, none_tokens, error, sends, route, seen, slept>>

\* the results bot.send_message can have in the try block after reply:
\* all of them when the block calls it, and nothing to choose when it does not
TryOutcomes(reply) ==
    IF TryBody(TOKENS, timestamp, last_message, reply, Delivered).sends = <<>>
    THEN {Delivered}
    ELSE SendOutcomes

\* likewise for the handler
HandlerOutcomes ==
    IF HandlerSends(last_message, FailureMessage(error), Delivered) = <<>>
    THEN {Delivered}
    ELSE SendOutcomes

\* homework.py:152-163 when requests.get gives reply
TryWith(reply) ==
    /\ pc = "try"
    /\ \E outcome \in TryOutcomes(reply) :
          \E out \in {TryBody(TOKENS, timestamp, last_message, reply, outcome)} :
              /\ route' = out.route
              /\ error' = out.error
              /\ sends' = out.sends
              /\ last_message' = out.last_message
              /\ timestamp' = out.timestamp
              /\ seen' = out.seen
              /\ pc' = TryNext(out.route)
    /\ slept' = <<>>
    /\ UNCHANGED <<TOKENS, none_tokens>>

\* homework.py:152-163
TryBlock == \E reply \in Replies : TryWith(reply)

\* homework.py:164-175
ExceptBlock ==
    /\ pc = "except"
    /\ \E outcome \in HandlerOutcomes :
          \E made \in {HandlerSends(last_message, FailureMessage(error), outcome)} :
              /\ last_message' =
                     HandlerLastMessage(last_message, FailureMessage(error), outcome)
              /\ pc' = HandlerNext(last_message, FailureMessage(error), outcome)
              /\ sends' = sends \o made
    /\ route' = "failed"
    /\ error' = ""
    /\ UNCHANGED <<TOKENS, none_tokens, timestamp, seen, slept>>

\* homework.py:176-177
FinallyBlock ==
    /\ pc = "finally"
    /\ slept' = Append(slept, RETRY_PERIOD)
    /\ pc' = FinallyNext(route)
    /\ sends' = <<>>
    /\ seen' = NoSeen
    /\ UNCHANGED <<TOKENS, none_tokens, timestamp, last_message, error, route>>

\* the sends the step made
NewSends == IF pc = "except" THEN SubSeq(sends', Len(sends) + 1, Len(sends')) ELSE sends'

\* the text check_response raised in the step, "" if it did not
NewSchemaError ==
    IF pc = "try" /\ pc' = "except" /\ seen'.fetched /\ ~seen'.listed THEN seen'.text ELSE ""

Init == Start({NoTally})

Next ==
    \/ CheckTokens /\ UNCHANGED history
    \/ StartBot /\ UNCHANGED history
    \/ TryBlock /\ UNCHANGED history
    \/ ExceptBlock /\ UNCHANGED history
    \/ FinallyBlock /\ UNCHANGED history

Spec == Init /\ [][Next]_vars

\* main() leaves the block of the loop it is in
Leaves(p) == pc = p /\ pc' \in ({"try", "except", "finally"} \ {p})

\* main() is the only thread and every call it makes returns or raises
\* (requests.get, bot.send_message, time.sleep), so no block of the loop
\* is entered and never left
FairSpec == Spec /\ \A p \in {"try", "except", "finally"} : WF_pc(Leaves(p))

\* main() under a complete configuration, the runs of like iterations recorded
RunNext ==
    \/ CheckTokens /\ UNCHANGED history
    \/ StartBot /\ UNCHANGED history
    \/ TryBlock /\ run' = Joined(run, seen', sends') /\ UNCHANGED <<tally, got, attempt, echo>>
    \/ ExceptBlock /\ run' = Counted(run, NewSends) /\ UNCHANGED <<tally, got, attempt, echo>>
    \/ FinallyBlock /\ UNCHANGED history

RunInit == Init /\ Configured

RunSpec == RunInit /\ [][RunNext]_vars

\* main() under a complete configuration, the sends of one failure text counted
TallyNext ==
    \/ CheckTokens /\ UNCHANGED history
    \/ StartBot /\ UNCHANGED history
    \/ TryBlock /\ tally' = Tallied(tally, NewSchemaError, NewSends) /\ UNCHANGED <<run, got, attempt, echo>>
    \/ ExceptBlock /\ tally' = Tallied(tally, NewSchemaError, NewSends) /\ UNCHANGED <<run, got, attempt, echo>>
    \/ FinallyBlock /\ UNCHANGED history

TallyInit == Start({ [NoTally EXCEPT !.watched = e] : e \in SchemaErrors }) /\ Configured

TallySpec == TallyInit /\ [][TallyNext]_vars

\* main() under a complete configuration, the replies of requests.get kept
\* for the length of the iteration
ReplyNext ==
    \/ CheckTokens /\ UNCHANGED history
    \/ StartBot /\ UNCHANGED history
    \/ (\E reply \in Replies : TryWith(reply) /\ got' = Append(got, reply))
           /\ UNCHANGED <<run, tally, attempt, echo>>
    \/ ExceptBlock /\ UNCHANGED history
    \/ FinallyBlock /\ got' = <<>> /\ UNCHANGED <<run, tally, attempt, echo>>

ReplyInit == Init /\ Configured

\* main() under a complete configuration, the latest call of
\* bot.send_message recorded and compared with the one before it
AttemptNext ==
    \/ CheckTokens /\ UNCHANGED history
    \/ StartBot /\ UNCHANGED history
    \/ TryBlock /\ attempt' = Attempted(attempt, NewSends) /\ UNCHANGED <<run, tally, got, echo>>
    \/ ExceptBlock /\ attempt' = Attempted(attempt, NewSends) /\ UNCHANGED <<run, tally, got, echo>>
    \/ FinallyBlock /\ UNCHANGED history

AttemptInit == Init /\ Configured

\* main() under a complete configuration, the sequence status message,
\* failure message, same status message followed
EchoNext ==
    \/ CheckTokens /\ UNCHANGED history
    \/ StartBot /\ UNCHANGED history
    \/ TryBlock /\ echo' = EchoedTry(echo, seen', sends') /\ UNCHANGED <<run, tally, got, attempt>>
    \/ ExceptBlock /\ echo' = EchoedHandler(echo, NewSends) /\ UNCHANGED <<run, tally, got, attempt>>
    \/ FinallyBlock /\ UNCHANGED history

EchoInit == Init /\ Configured

EchoSpec == EchoInit /\ [][EchoNext]_vars

AttemptSpec == AttemptInit /\ [][AttemptNext]_vars

ReplySpec == ReplyInit /\ [][ReplyNext]_vars /\ \A p \in {"try", "except", "finally"} : WF_pc(Leaves(p))

----------------------------------------------------------------------------
(* The claims. *)

LoopPcs == {"try", "except", "finally"}

\* an iteration is under way or has just ended: seen and sends describe it
InIteration == pc \in {"except", "finally"}

\* C1: once main() is in the loop it stays in the loop whatever fetch,
\* validate, parse or send did, each iteration ends in the sleep and each
\* sleep is followed by another call of get_api_answer.
C1_LoopNeverEnds ==
    /\ [][(pc \in LoopPcs) => (pc' \in LoopPcs)]_vars
    /\ (InIteration /\ slept = <<>>) ~> (slept # <<>>)
    /\ (slept # <<>>) ~> (InIteration /\ slept = <<>>)

\* the status send raised, the handler's send raised too, and main() goes on
C1_Witness ==
    /\ pc = "finally"
    /\ Len(sends) = 2
    /\ sends[1].result = "Exception"
    /\ sends[2].result = "Exception"

Missing == { TokenNames[i] : i \in { j \in 1..Len(TokenNames) : ~Truthy(TOKENS[TokenNames[j]]) } }

\* C2: after the startup check the reported list is exactly the set of
\* missing (absent or empty) tokens, main() has exited if that set is not
\* empty and has not exited if it is empty.
C2_ReportsExactlyMissing ==
    pc # "start" =>
        /\ { none_tokens[i] : i \in DOMAIN none_tokens } = Missing
        /\ Missing # {} => pc = "exit"
        /\ Missing = {} => pc # "exit"

\* C3: whenever main() is about to call get_api_answer after an iteration,
\* exactly one sleep of RETRY_PERIOD has been made since the previous call,
\* and none is made before the iteration reaches its finally clause.
C3_OneSleepBetweenFetches ==
    /\ pc = "try" => slept = (IF route = "none" THEN <<>> ELSE <<RETRY_PERIOD>>)
    /\ InIteration => slept = <<>>

\* the iteration that took "continue" slept once
C3_Witness == pc = "try" /\ route = "empty" /\ slept = <<RETRY_PERIOD>>

\* the i-th send of the iteration returned normally to main(): the
\* statement after the call ran
Returned(i) ==
    IF i = 1 /\ seen.parsed
    THEN route = "dispatched"
    ELSE last_message = sends[i].text

\* C4 as stated: every failure of bot.send_message is swallowed by
\* send_message, which returns normally to main().
C4_NeverPropagates ==
    InIteration => \A i \in DOMAIN sends : sends[i].result # "ok" => Returned(i)

\* C4 amended: a TelegramError is swallowed and the iteration goes on as
\* if the message had been delivered; any other exception propagates.
C4_OnlyTelegramErrorSwallowed ==
    InIteration =>
        \A i \in DOMAIN sends :
            /\ sends[i].result \in {"ok", "TelegramError"} => Returned(i)
            /\ sends[i].result = "Exception" => ~Returned(i)

C4_Witness ==
    /\ pc = "finally"
    /\ route = "dispatched"
    /\ sends # <<>>
    /\ sends[1].result = "TelegramError"
    /\ last_message = sends[1].text

\* two consecutive iterations just ended that saw the same cursor and got
\* the same parseable response
SamePlainTwice == pc = "finally" /\ run.key.parsed /\ run.len = 2

SameFetchFailure == pc = "finally" /\ ~run.key.fetched /\ run.len >= 2

C7_CursorChangesOnlyOnSuccess ==
    (InIteration /\ timestamp # seen.cursor0) =>
        (seen.fetched /\ seen.nonempty /\ seen.parsed /\ seen.dated)

C7_Witness == pc = "finally" /\ timestamp # seen.cursor0 /\ route = "dispatched"

\* C8: the cursor after an iteration is never smaller than before it.
C8_CursorNeverRegresses == InIteration => timestamp >= seen.cursor0

\* an iteration ended and the tally is up to date
Settled == pc \in {"finally", "try"}

\* the iteration failed in check_response
SchemaFailure == pc = "finally" /\ route = "failed" /\ seen.fetched /\ ~seen.listed

\* C9 as stated: a failure text check_response has raised was sent
\* exactly once, whatever came between the iterations that raised it.
C9_ExactlyOncePerText == (Settled /\ tally.occurred) => tally.count = 1

\* C9 amended: a failure text check_response has raised was sent at least
\* once, and the iteration that raises it sends its failure message once if
\* last_message differs from it and not at all if last_message equals it.
C9_OncePerChange ==
    /\ (Settled /\ tally.occurred) => tally.count >= 1
    /\ SchemaFailure =>
          [i \in DOMAIN sends |-> sends[i].text] =
              (IF seen.last0 = FailureMessage(seen.text) THEN <<>>
               ELSE <<FailureMessage(seen.text)>>)

\* the watched text was sent, a status message was dispatched after it, and
\* the text was raised and sent again
C9_Witness ==
    /\ SchemaFailure
    /\ seen.text = tally.watched
    /\ seen.last0 = parse_status(Homework({"homework_name", "status"}, "approved")).text
    /\ tally.count = 2
    /\ sends # <<>>
    /\ sends[1].result = "ok"

\* C10: an iteration whose list is empty sends nothing, keeps cursor and
\* last_message, and goes to the sleep without entering the handler.
C10_EmptyListIsNoOp ==
    (InIteration /\ seen.listed /\ ~seen.nonempty) =>
        /\ pc = "finally"
        /\ route = "empty"
        /\ sends = <<>>
        /\ timestamp = seen.cursor0
        /\ last_message = seen.last0

C10_Witness ==
    pc = "finally" /\ seen.listed /\ ~seen.nonempty /\ seen.dated /\ last_message # ""

\* the reply of the iteration's call of requests.get
Reply == got[1]

\* requests.get returned a response with status 200
Answered == got # <<>> /\ Reply.exc = "" /\ Reply.status_code = HTTP_OK

\* a decoded payload that is no mapping, lacks homeworks, or whose homeworks
\* is no list
SchemaInvalid(body) ==
    \/ body.kind \in {"list", "int"}
    \/ body.kind = "dict" /\ "homeworks" \notin body.keys
    \/ body.kind = "dict" /\ "homeworks" \in body.keys /\ body.homeworks.type # "list"

\* a record that lacks homework_name or status or has an unknown status
BadRecord(h) ==
    \/ "homework_name" \notin h.keys
    \/ "status" \notin h.keys
    \/ h.status \notin VerdictKeys

\* a mapping without error/code keys whose homeworks is a non-empty list
WithRecords(body) ==
    /\ body.kind = "dict"
    /\ {"error", "code"} \cap body.keys = {}
    /\ "homeworks" \in body.keys
    /\ body.homeworks.type = "list"
    /\ body.homeworks.items # <<>>

BadFirstRecord(body) == WithRecords(body) /\ BadRecord(body.homeworks.items[1])

\* the error text as a function of the payload alone
SchemaErrorText(body) ==
    IF SchemaInvalid(body) THEN check_response(body).text
    ELSE parse_status(body.homeworks.items[1]).text

\* C11: check_response raises for every payload that is no mapping, lacks
\* homeworks or has a non-list homeworks, parse_status raises for every
\* record that lacks homework_name or status or has an unknown status, and
\* an iteration that receives such a payload or such a first record takes
\* the failure path, sends no status message, and its error text is
\* determined by the payload alone.
C11_SchemaInvalidAlwaysFails ==
    /\ \A b \in Bodies : SchemaInvalid(b) => check_response(b).raised
    /\ \A h \in HomeworkRecords \cup OlderRecords : BadRecord(h) => parse_status(h).raised
    /\ (InIteration /\ Answered
            /\ (SchemaInvalid(Reply.body) \/ BadFirstRecord(Reply.body))) =>
          /\ ~seen.parsed
          /\ (pc = "except" /\ route = "raised") \/ (pc = "finally" /\ route = "failed")
          /\ \A i \in DOMAIN sends : sends[i].text = FailureMessage(seen.text)
          /\ Len(sends) <= 1
          /\ seen.fetched => seen.text = SchemaErrorText(Reply.body)
          /\ ~seen.fetched =>
                \A ts \in Dates : seen.text = get_api_answer(TOKENS, ts, Reply).text

\* an unknown status in the first record was reported, not a status message
C11_Witness ==
    /\ pc = "finally"
    /\ Answered
    /\ BadFirstRecord(Reply.body)
    /\ Reply.body.homeworks.items[1].status = "cancelled"
    /\ sends = <<Sent(FailureMessage("Neizvestnyi status raboty - cancelled"), Delivered)>>
    /\ last_message = FailureMessage("Neizvestnyi status raboty - cancelled")

\* the parameters get_api_answer names in its errors, as the iteration had them
SeenParams == ENDPOINT \o " " \o HEADERS(TOKENS) \o " " \o ToString(seen.cursor0)

\* the body decoded to a mapping with a top-level error or code key
Refused(body) == body.kind = "dict" /\ {"error", "code"} \cap body.keys # {}

\* C12: get_api_answer raises the transport error if the request could not
\* be completed; otherwise the HTTP-status error if the status code is not
\* 200, whatever the body; otherwise the API-key error if the decoded body
\* has a top-level error or code key; it returns only otherwise, and then
\* the decoded body unmodified.  A 503 response makes the iteration fail,
\* and the loop sleeps and calls get_api_answer again.
C12_ClassifiesInOrder ==
    /\ [](InIteration =>
            /\ Len(got) = 1
            /\ Reply.exc # "" =>
                   /\ ~seen.fetched
                   /\ seen.text = "Oshibka zaprosa k API:" \o Reply.exc
                                      \o ". Parametry:" \o SeenParams
            /\ (Reply.exc = "" /\ Reply.status_code # HTTP_OK) =>
                   /\ ~seen.fetched
                   /\ seen.text = "Ne poluchen otvet API. Kod otveta: "
                                      \o ToString(Reply.status_code)
                   /\ (pc = "except" /\ route = "raised")
                          \/ (pc = "finally" /\ route = "failed")
            /\ (Answered /\ Refused(Reply.body)) =>
                   /\ ~seen.fetched
                   /\ seen.text \in
                          { "Otkaz servera. V otvete naiden klyuch:" \o k
                                \o ". Oshibka:" \o (IF k = "error" THEN Reply.body.error
                                                     ELSE Reply.body.code)
                                \o ". Parametry:" \o SeenParams :
                            k \in {"error", "code"} \cap Reply.body.keys }
            /\ seen.fetched =>
                   /\ Answered
                   /\ ~Refused(Reply.body)
                   /\ get_api_answer(TOKENS, seen.cursor0, Reply) = Return(Reply.body))
    /\ (pc = "except" /\ got # <<>> /\ Reply.status_code = 503)
           ~> (pc = "try" /\ slept = <<RETRY_PERIOD>> /\ route = "failed")

\* a 503 response whose body carries an error key gave the HTTP-status
\* error, which was sent
C12_Witness ==
    /\ pc = "finally"
    /\ got # <<>>
    /\ Reply.status_code = 503
    /\ Reply.body \in RefusedBodies
    /\ route = "failed"
    /\ sends = <<Sent(FailureMessage("Ne poluchen otvet API. Kod otveta: 503"), Delivered)>>

\* the latest send of the iteration
LatestSend == sends[Len(sends)]

\* LastMessage is empty when the loop is entered and never becomes empty again
StartsEmptyNeverCleared ==
    /\ []((pc = "try" /\ route = "none") => last_message = "")
    /\ [][(last_message # "") => (last_message' # "")]_vars

\* C13 as stated: after a send attempt with text m, last_message is m
\* before the next comparison, however bot.send_message ended; last_message
\* starts empty and is never reset to empty.
C13_SetOnEveryAttempt ==
    /\ []((InIteration /\ sends # <<>>) => last_message = LatestSend.text)
    /\ StartsEmptyNeverCleared

\* C13 amended: after a send attempt with text m that returned or raised a
\* TelegramError, last_message is m before the next comparison; after one
\* that raised another exception last_message is what it was before the
\* attempt; last_message starts empty and is never reset to empty.
C13_SetUnlessRaised ==
    /\ []((InIteration /\ sends # <<>>) =>
            /\ LatestSend.result \in {"ok", "TelegramError"} =>
                    last_message = LatestSend.text
            /\ LatestSend.result = "Exception" => last_message = seen.last0)
    /\ StartsEmptyNeverCleared

\* the failure message was not delivered (TelegramError) and replaced the
\* earlier message in last_message
C13_Witness ==
    /\ pc = "finally"
    /\ route = "failed"
    /\ Len(sends) = 1
    /\ sends[1].result = "TelegramError"
    /\ last_message = sends[1].text
    /\ seen.last0 # ""

\* the cursor the response asks for: its current_date, else the cursor sent
Advanced ==
    IF "current_date" \in Reply.body.keys THEN Reply.body.current_date ELSE seen.cursor0

\* C14 as stated: when parse_status returned a message that differs from
\* last_message, the message is sent and the cursor becomes the response's
\* current_date if present and stays otherwise; when the message equals
\* last_message nothing is sent and the cursor stays, whatever current_date is.
C14_CursorFollowsDispatch ==
    (InIteration /\ seen.parsed) =>
        IF seen.last0 # seen.text
        THEN /\ sends # <<>>
             /\ sends[1].text = seen.text
             /\ timestamp = Advanced
        ELSE /\ sends = <<>>
             /\ timestamp = seen.cursor0

\* C14 amended: as stated, except that the cursor stays as well when the
\* send raised an exception other than TelegramError.
C14_CursorFollowsReturnedDispatch ==
    (InIteration /\ seen.parsed) =>
        IF seen.last0 # seen.text
        THEN /\ sends # <<>>
             /\ sends[1].text = seen.text
             /\ sends[1].result \in {"ok", "TelegramError"} => timestamp = Advanced
             /\ sends[1].result = "Exception" => timestamp = seen.cursor0
        ELSE /\ sends = <<>>
             /\ timestamp = seen.cursor0

\* a suppressed duplicate whose response carried another current_date
C14_Witness ==
    /\ pc = "finally"
    /\ route = "suppressed"
    /\ seen.parsed
    /\ seen.last0 = seen.text
    /\ "current_date" \in Reply.body.keys
    /\ Reply.body.current_date # seen.cursor0
    /\ timestamp = seen.cursor0

\* the response carried a list of two or more records
ManyRecords ==
    /\ Answered
    /\ Reply.body.kind = "dict"
    /\ "homeworks" \in Reply.body.keys
    /\ Reply.body.homeworks.type = "list"
    /\ Len(Reply.body.homeworks.items) >= 2

\* the same response with no record after the first
FirstOnly(reply) ==
    [reply EXCEPT !.body.homeworks.items = <<reply.body.homeworks.items[1]>>]

\* C15: an iteration whose response carries later records, well-formed,
\* malformed or of unknown status, ends with the send attempts, the cursor
\* and the last_message of the iteration on the same response without them;
\* so two responses that differ only in the later records give the same.
C15_OnlyFirstRecordCounts ==
    (pc = "finally" /\ ManyRecords) =>
        \E o1 \in SendOutcomes, o2 \in SendOutcomes :
            [sends |-> sends, last_message |-> last_message, timestamp |-> timestamp]
                = IterationEnd(TOKENS, seen.cursor0, seen.last0, FirstOnly(Reply), o1, o2)

\* a status message was dispatched from a list whose second record is malformed
C15_Witness ==
    /\ pc = "finally"
    /\ ManyRecords
    /\ Reply.body.homeworks.items[2] = Homework({}, "")
    /\ route = "dispatched"
    /\ sends = <<Sent(parse_status(Reply.body.homeworks.items[1]).text, Delivered)>>
    /\ last_message = sends[1].text

\* requests.get is called only from the try block, and after an iteration
\* only once the sleep has been made
FetchOnlyAfterSleep ==
    [][(Len(got') > Len(got)) =>
          (pc = "try" /\ got = <<>> /\ slept = (IF route = "none" THEN <<>> ELSE <<RETRY_PERIOD>>))]_vars

\* C16 as stated: an iteration calls requests.get exactly once and
\* bot.send_message at most once; a failed fetch or send is repeated only
\* by a later iteration, after the sleep.
C16_OneFetchOneSend ==
    /\ [](InIteration => (Len(got) = 1 /\ Len(sends) <= 1))
    /\ FetchOnlyAfterSleep

\* C16 amended: an iteration calls requests.get exactly once, and
\* bot.send_message at most once in the try block and at most once in the
\* handler; it calls it twice only when the status send raised an exception
\* other than TelegramError, and then with two different texts, so no call
\* is repeated within the iteration.
C16_OneFetchNoRetry ==
    /\ [](InIteration =>
            /\ Len(got) = 1
            /\ Len(sends) <= 2
            /\ Len(sends) = 2 =>
                   /\ seen.parsed
                   /\ sends[1].text = seen.text
                   /\ sends[1].result = "Exception"
                   /\ sends[2].text # sends[1].text)
    /\ FetchOnlyAfterSleep

\* the fetch failed, the send of the failure message failed too, and the
\* iteration ended with one call of each
C16_Witness ==
    /\ pc = "finally"
    /\ Len(got) = 1
    /\ Reply.exc # ""
    /\ Len(sends) = 1
    /\ sends[1].result = "TelegramError"

\* C17 as stated: the text of every send attempt differs from the text of
\* the attempt before it, however bot.send_message ended.
C17_NoRepeatedText == ~attempt.same

\* C17 amended: the text of a send attempt differs from the text of the
\* attempt before it unless that attempt raised an exception other than
\* TelegramError.
C17_NoRepeatUnlessRaised == attempt.same => attempt.after = "Exception"

\* a send followed one that ended in a TelegramError, with another text
C17_Witness ==
    /\ pc = "finally"
    /\ sends # <<>>
    /\ attempt.text = LatestSend.text
    /\ attempt.result = "ok"
    /\ attempt.after = "TelegramError"
    /\ ~attempt.same

\* an iteration failed before any send and its failure message differed
\* from last_message
FailedWithNews ==
    /\ pc = "finally"
    /\ route = "failed"
    /\ ~seen.parsed
    /\ seen.last0 # FailureMessage(seen.text)

\* the handler sent the failure message, whether or not it was sent before
FailureSentAgain == FailedWithNews => (sends # <<>> /\ sends[1].text = FailureMessage(seen.text))

\* C18 as stated: after a status message M was sent and then a failure
\* message, an iteration that parses to M sends M again; and a failure
\* message that differs from last_message is sent whether or not it was
\* sent before.
C18_ResentAfterAnother ==
    /\ echo.phase # 4
    /\ FailureSentAgain

\* C18 amended: after a status message M was sent and then a failure
\* message whose send returned to main() (it was delivered, or raised a
\* TelegramError), an iteration that parses to M sends M again; M is held
\* back only if every send of a failure message since raised another
\* exception; and a failure message that differs from last_message is sent
\* whether or not it was sent before.
C18_ResentAfterAnotherReturned ==
    /\ echo.phase = 4 => ~echo.returned
    /\ (pc = "finally" /\ echo.phase = 4) => (sends = <<>> /\ last_message = echo.m)
    /\ FailureSentAgain

\* M was sent, a failure message replaced it in last_message, and M was
\* sent again
C18_Witness ==
    /\ pc = "finally"
    /\ echo.phase = 3
    /\ echo.returned
    /\ route = "dispatched"
    /\ sends # <<>>
    /\ sends[1].text = echo.m
    /\ seen.last0 # ""
    /\ seen.last0 # echo.m

\* the send of the status message raised an exception send_message does
\* not swallow
StatusSendRaised ==
    InIteration /\ seen.parsed /\ sends # <<>> /\ sends[1].result = "Exception"

\* the failure message that embeds str() of that exception
RaisedMessage ==
    FailureMessage((CHOOSE o \in SendOutcomes : o.kind = "Exception").text)

\* what holds of such an iteration up to the comparison of the handler, and
\* of the handler's own send
RaisedIntoHandler ==
    /\ sends[1].text = seen.text
    /\ timestamp = seen.cursor0
    /\ last_message # seen.text
    /\ pc = "except" =>
           /\ route = "raised"
           /\ FailureMessage(error) = RaisedMessage
           /\ last_message = seen.last0
    /\ pc = "finally" =>
           /\ route = "failed"
           /\ Len(sends) = 2 =>
                  /\ sends[2].text = RaisedMessage
                  /\ sends[2].result = "Exception" => last_message = seen.last0
                  /\ sends[2].result # "Exception" => last_message = RaisedMessage

\* main() goes from the finally clause of such an iteration to the next try
\* block, after the sleep
SleepsAndGoesOn ==
    [][(StatusSendRaised /\ pc = "finally") =>
          (pc' = "try" /\ slept' = <<RETRY_PERIOD>>)]_vars

\* C19 as stated: when the send of the status message raises an exception
\* other than TelegramError, last_message is not set to the status message,
\* the cursor stays, the handler attempts a failure message that embeds the
\* exception in the same iteration, and if that send raises too last_message
\* stays and the loop goes on after the sleep.
C19_RaisedSendIsReported ==
    /\ [](StatusSendRaised =>
            /\ RaisedIntoHandler
            /\ pc = "finally" => Len(sends) = 2)
    /\ SleepsAndGoesOn

\* C19 amended: as stated, except that the handler attempts the failure
\* message only if last_message differs from it; if last_message already
\* equals it the iteration makes no second send and last_message stays.
C19_RaisedSendIsReportedOnce ==
    /\ [](StatusSendRaised =>
            /\ RaisedIntoHandler
            /\ pc = "finally" =>
                   IF seen.last0 = RaisedMessage
                   THEN Len(sends) = 1 /\ last_message = seen.last0
                   ELSE Len(sends) = 2)
    /\ SleepsAndGoesOn

\* the status send raised although the response carried current_date, and
\* the failure message was sent and recorded
C19_Witness ==
    /\ pc = "finally"
    /\ StatusSendRaised
    /\ seen.dated
    /\ Len(sends) = 2
    /\ sends[2].result = "ok"
    /\ last_message = RaisedMessage
    /\ seen.last0 # ""

====
